---- MODULE Spec2Model ----
(***************************************************************************)
(* E-24 schedule bot (BOT-E24/flask_app.py, schedule_data.py).            *)
(*                                                                         *)
(* Five parts of the program are modelled, each with its own               *)
(* specification over the same variables:                                  *)
(*   SpecLookup   the schedule lookups over the static week table;         *)
(*   SpecRender   the texts the formatters and the status page build from  *)
(*                the lookups;                                             *)
(*   SpecGateway  one call of a Telegram gateway operation, attempt by     *)
(*                attempt, through the session's retrying adapter;         *)
(*   SpecDb       requests running update_user_stats against the users     *)
(*                table, statement by statement;                           *)
(*   SpecWebhook  requests to /webhook and /api/status, one at a time.     *)
(***************************************************************************)
EXTENDS Integers, Sequences, FiniteSets, TLC

VARIABLES
    clock,      \* the clock reading of the lookups: [weekday, time]
    lookup,     \* the lookup that returned: [op, result]
    call,       \* the gateway call: [op, pc, attempt, retries the adapter has left]
    requests,   \* HTTP requests the call has sent to the Telegram API
    attempts,   \* per attempt of the call, the result of the request that ended it
    sleeps,     \* the arguments of the call's time_module.sleep calls
    log,        \* what the call has logged
    ret,        \* "pending", or how the call ended: "result", "None", "raised"
    delivered,  \* requests of the call that the Telegram API has carried out
    users,      \* the committed rows of the users table
    txn,        \* the open write transaction: [owner, rows]
    worker,     \* each request's call of update_user_stats: [pc, chat_id, ...]
    now,        \* the clock update_user_stats reads, as a count of its readings
    begun,      \* calls of update_user_stats begun so far
    history,    \* per chat, how its calls of update_user_stats ended
    render,     \* the text a formatter returned: [op, day, raised, text]
    bot_stats,  \* the process's counters: [messages_processed, active_chats]
    served,     \* the request /webhook served last, and what came of it
    responses,  \* the answers of /webhook so far, oldest first: <<body, status>>
    api         \* the latest response of /api/status: [status, raised, document]

lookupVars == <<clock, lookup>>

gatewayVars == <<call, requests, attempts, sleeps, log, ret, delivered>>

dbVars == <<users, txn, worker, now, begun, history>>

appVars == <<render, bot_stats, served, responses, api>>

vars == <<clock, lookup, call, requests, attempts, sleeps, log, ret, delivered,
          users, txn, worker, now, begun, history,
          render, bot_stats, served, responses, api>>

(***************************************************************************)
(* Optional values: None is the empty sequence, a value x is <<x>>.        *)
(***************************************************************************)
None == <<>>

Some(x) == <<x>>

(***************************************************************************)
(* schedule_data.py.  A time string is the sequence of its characters, so  *)
(* that parsing and string comparison are computed, not assumed.           *)
(***************************************************************************)
T0830_0950 == <<"8", ":", "3", "0", "-", "9", ":", "5", "0">>

T1000_1120 == <<"1", "0", ":", "0", "0", "-", "1", "1", ":", "2", "0">>

T1200_1320 == <<"1", "2", ":", "0", "0", "-", "1", "3", ":", "2", "0">>

T1330_1450 == <<"1", "3", ":", "3", "0", "-", "1", "4", ":", "5", "0">>

Pair(t, subject, n) == [time |-> t, subject |-> subject, pair_number |-> n]

SCHEDULE ==
    [monday |-> << Pair(T0830_0950, "Fizicheskaya kultura", 1),
                   Pair(T1000_1120, "Geografiya/Zarubezhnaya literatura", 2),
                   Pair(T1200_1320, "Grazhdanskoe obrazovanie", 3),
                   Pair(T1330_1450, "Istoriya Ukrainy/Vsemirnaya Istoriya", 4) >>,
     tuesday |-> << Pair(T0830_0950, "Zashchita Ukrainy", 1),
                    Pair(T1000_1120, "Himiya/Biologiya i ekologiya", 2),
                    Pair(T1200_1320, "Matematika", 3),
                    Pair(T1330_1450, "Osnovy programmirovaniya", 4) >>,
     wednesday |-> << Pair(T0830_0950, "Ukrainskij yazyk", 1),
                      Pair(T1000_1120, "Teoriya elektricheskih i magnitnyh cepej", 2),
                      Pair(T1200_1320, "Ukrainskaya literatura", 3) >>,
     thursday |-> << Pair(T0830_0950, "Tehnologii/Kompyuternaya grafika", 1),
                     Pair(T1000_1120, "Informatika", 2),
                     Pair(T1200_1320, "Osnovy programmirovaniya/TE i MK", 3) >>,
     friday |-> << Pair(T0830_0950, "Inostrannyj yazyk/Fizika i astronomiya", 1),
                   Pair(T1000_1120, "Fizika i astronomiya", 2),
                   Pair(T1200_1320, "Matematika/Fizicheskaya kultura", 3) >>]

WEEKDAYS ==
    [i \in 0..6 |->
        CASE i = 0 -> "monday"
          [] i = 1 -> "tuesday"
          [] i = 2 -> "wednesday"
          [] i = 3 -> "thursday"
          [] i = 4 -> "friday"
          [] i = 5 -> "saturday"
          [] OTHER -> "sunday"]

(***************************************************************************)
(* The clock.  datetime.now(UKRAINE_TZ) gives a weekday number and a time  *)
(* of day; the time of day carries seconds, which the schedule strings do  *)
(* not.  Seconds are sampled at the two ends of a minute.                  *)
(***************************************************************************)
Seconds == {0, 59}

Time(h, m, s) == [hour |-> h, minute |-> m, second |-> s]

TimesOfDay == {Time(h, m, s) : h \in 0..23, m \in 0..59, s \in Seconds}

\* datetime.time ordering: by hour, then minute, then second.
TimeLT(a, b) ==
    \/ a.hour < b.hour
    \/ a.hour = b.hour /\ a.minute < b.minute
    \/ a.hour = b.hour /\ a.minute = b.minute /\ a.second < b.second

TimeLE(a, b) == a = b \/ TimeLT(a, b)

(***************************************************************************)
(* str.split and int, as parse_time uses them.                             *)
(***************************************************************************)
RECURSIVE Split(_, _)
Split(s, sep) ==
    IF \A i \in 1..Len(s) : s[i] # sep
    THEN <<s>>
    ELSE LET k == CHOOSE i \in 1..Len(s) :
                     s[i] = sep /\ \A j \in 1..(i - 1) : s[j] # sep
         IN  <<SubSeq(s, 1, k - 1)>> \o Split(SubSeq(s, k + 1, Len(s)), sep)

DigitValue(c) ==
    CASE c = "0" -> 0 [] c = "1" -> 1 [] c = "2" -> 2 [] c = "3" -> 3
      [] c = "4" -> 4 [] c = "5" -> 5 [] c = "6" -> 6 [] c = "7" -> 7
      [] c = "8" -> 8 [] c = "9" -> 9

RECURSIVE ToInt(_)
ToInt(s) ==
    IF Len(s) = 1
    THEN DigitValue(s[1])
    ELSE 10 * ToInt(SubSeq(s, 1, Len(s) - 1)) + DigitValue(s[Len(s)])

\* parse_time: '8:30-9:50' to (time(8, 30), time(9, 50)).
parse_time(time_str) ==
    LET parts == Split(time_str, "-")
        start == Split(parts[1], ":")
        end   == Split(parts[2], ":")
    IN  <<Time(ToInt(start[1]), ToInt(start[2]), 0),
          Time(ToInt(end[1]), ToInt(end[2]), 0)>>

(***************************************************************************)
(* The lookups, as functions of the day and the time the clock returned.   *)
(***************************************************************************)
get_current_day(weekday) == WEEKDAYS[weekday]

\* The loop "for pair in pairs: if <test>: return pair" followed by
\* "return None": the pair at the least index that passes the test.
FirstPair(pairs, passing) ==
    IF passing = {}
    THEN None
    ELSE Some(pairs[CHOOSE i \in passing : \A j \in passing : i <= j])

\* get_current_pair with "start_time <= current_time < end_time".
get_current_pair_open_end(current_day, current_time) ==
    IF current_day \notin DOMAIN SCHEDULE
    THEN None
    ELSE LET pairs == SCHEDULE[current_day]
         IN  FirstPair(pairs,
                 {i \in 1..Len(pairs) :
                     /\ TimeLE(parse_time(pairs[i].time)[1], current_time)
                     /\ TimeLT(current_time, parse_time(pairs[i].time)[2])})

get_current_pair(current_day, current_time) ==
    IF current_day \notin DOMAIN SCHEDULE
    THEN None
    ELSE LET pairs == SCHEDULE[current_day]
         IN  FirstPair(pairs,
                 {i \in 1..Len(pairs) :
                     /\ TimeLE(parse_time(pairs[i].time)[1], current_time)
                     /\ TimeLE(current_time, parse_time(pairs[i].time)[2])})

\* get_next_pair with "current_time <= start_time".
get_next_pair_at_start(current_day, current_time) ==
    IF current_day \notin DOMAIN SCHEDULE
    THEN None
    ELSE LET pairs == SCHEDULE[current_day]
         IN  FirstPair(pairs,
                 {i \in 1..Len(pairs) :
                     TimeLE(current_time, parse_time(pairs[i].time)[1])})

get_next_pair(current_day, current_time) ==
    IF current_day \notin DOMAIN SCHEDULE
    THEN None
    ELSE LET pairs == SCHEDULE[current_day]
         IN  FirstPair(pairs,
                 {i \in 1..Len(pairs) :
                     TimeLT(current_time, parse_time(pairs[i].time)[1])})

get_today_schedule_monday_default(current_day) ==
    IF current_day \in DOMAIN SCHEDULE THEN SCHEDULE[current_day] ELSE SCHEDULE.monday

get_today_schedule(current_day) ==
    IF current_day \in DOMAIN SCHEDULE THEN SCHEDULE[current_day] ELSE <<>>

(***************************************************************************)
(* Lookup actions.  The clock reading (weekday number, time of day) is an  *)
(* input drawn in the initial state; each action is one lookup returning.  *)
(***************************************************************************)
NoLookup == [op |-> "none", result |-> <<>>]

\* No lookup is made: the clock is not read.
LookupAtRest ==
    /\ clock = [weekday |-> 0, time |-> Time(0, 0, 0)]
    /\ lookup = NoLookup

InitLookup ==
    /\ clock \in [weekday : DOMAIN WEEKDAYS, time : TimesOfDay]
    /\ lookup = NoLookup

GetCurrentPair ==
    /\ lookup.op = "none"
    /\ lookup' = [op |-> "get_current_pair",
                  result |-> get_current_pair(get_current_day(clock.weekday), clock.time)]
    /\ UNCHANGED <<clock, gatewayVars, dbVars, appVars>>

GetNextPair ==
    /\ lookup.op = "none"
    /\ lookup' = [op |-> "get_next_pair",
                  result |-> get_next_pair(get_current_day(clock.weekday), clock.time)]
    /\ UNCHANGED <<clock, gatewayVars, dbVars, appVars>>

GetTodaySchedule ==
    /\ lookup.op = "none"
    /\ lookup' = [op |-> "get_today_schedule",
                  result |-> get_today_schedule(get_current_day(clock.weekday))]
    /\ UNCHANGED <<clock, gatewayVars, dbVars, appVars>>

(***************************************************************************)
(* The reply texts.  A text is the sequence of its lines; a line keeps     *)
(* the literal it starts with (kind, mark) and the values formatted into   *)
(* it.  Literals are transliterated: "Vyhodnoj den" is the day-off         *)
(* wording of format_schedule_day, "Vyhodnoj den!" the one of the          *)
(* single-day view, "vyhodnoj den!" the one of /today and /schedule.       *)
(* The clock does not advance while one handler runs: the readings a       *)
(* handler makes are one reading c = [weekday, time].                      *)
(***************************************************************************)
WEEKDAYS_UA ==
    [monday    |-> "Ponedelnik",
     tuesday   |-> "Vtornik",
     wednesday |-> "Sreda",
     thursday  |-> "Chetverg",
     friday    |-> "Pyatnica",
     saturday  |-> "Subbota",
     sunday    |-> "Voskresene"]

\* The order in which WEEKDAYS_UA.items() yields the keys.
WEEKDAYS_UA_keys ==
    <<"monday", "tuesday", "wednesday", "thursday", "friday", "saturday", "sunday">>

Line(kind, day, mark, time, subject, number) ==
    [kind |-> kind, day |-> day, mark |-> mark,
     time |-> time, subject |-> subject, number |-> number]

Literal(kind, day, mark) == Line(kind, day, mark, <<>>, "", 0)

Entry(mark, pair) == Line("entry", "", mark, pair.time, pair.subject, 0)

format_schedule_day(day, pairs) ==
    IF pairs = <<>>
    THEN <<Literal("day_title", WEEKDAYS_UA[day], "Vyhodnoj den")>>
    ELSE <<Literal("day_title", WEEKDAYS_UA[day], "")>>
         \o [i \in 1..Len(pairs) |-> Entry("(clock)", pairs[i])]

\* The loop over a day's entries in handle_today and handle_schedule_day:
\* marks is <<status of the current entry, of a later one, of the others>>.
Status_by_time_only(pair, current_pair, current_time, marks) ==
    IF TimeLT(current_time, parse_time(pair.time)[1]) THEN marks[2] ELSE marks[3]

Status(pair, current_pair, current_time, marks) ==
    IF current_pair # None /\ pair = current_pair[1]
    THEN marks[1]
    ELSE IF TimeLT(current_time, parse_time(pair.time)[1])
         THEN marks[2]
         ELSE marks[3]

MarkedEntries(pairs, current_pair, current_time, marks) ==
    [i \in 1..Len(pairs) |->
        Entry(Status(pairs[i], current_pair, current_time, marks), pairs[i])]

TodayMarks == <<"(red) SEJCHAS", "(hourglass) BUDET", "(check) BYLO">>

DayMarks == <<"(red)", "(hourglass)", "(check)">>

\* handle_schedule: the text it sends or edits in.
ScheduleText(c) ==
    LET current_day    == get_current_day(c.weekday)
        today_schedule == get_today_schedule(get_current_day(c.weekday))
    IN  IF today_schedule # <<>>
        THEN <<Literal("header_today", WEEKDAYS_UA[current_day], "")>>
             \o format_schedule_day(current_day, today_schedule)
             \o <<Literal("hint_choose_day", "", "")>>
        ELSE <<Literal("header_group", "", ""),
               Literal("today", WEEKDAYS_UA[current_day], "vyhodnoj den!"),
               Literal("hint_choose_day", "", "")>>

\* handle_schedule_day, the 'full' branch: the days WEEKDAYS_UA lists that
\* SCHEDULE has, from the position i on.
RECURSIVE FullWeek(_)
FullWeek(i) ==
    IF i > Len(WEEKDAYS_UA_keys)
    THEN <<>>
    ELSE (IF WEEKDAYS_UA_keys[i] \in DOMAIN SCHEDULE
          THEN format_schedule_day(WEEKDAYS_UA_keys[i], SCHEDULE[WEEKDAYS_UA_keys[i]])
          ELSE <<>>)
         \o FullWeek(i + 1)

\* handle_schedule_day: the text it edits in, or the exception it raises
\* (WEEKDAYS_UA[day] of a day that is no key).
ScheduleDayText(day, c) ==
    IF day = "full"
    THEN [raised |-> "none",
          text   |-> <<Literal("header_full", "", "")>> \o FullWeek(1)
                     \o <<Literal("hint_other_day", "", "")>>]
    ELSE IF day \notin DOMAIN WEEKDAYS_UA
    THEN [raised |-> "KeyError", text |-> <<>>]
    ELSE LET day_schedule == IF day \in DOMAIN SCHEDULE THEN SCHEDULE[day] ELSE <<>>
             current_day  == get_current_day(c.weekday)
             current_pair == get_current_pair(get_current_day(c.weekday), c.time)
             body == IF day_schedule # <<>>
                     THEN IF day = current_day
                          THEN MarkedEntries(day_schedule, current_pair, c.time, DayMarks)
                          ELSE [i \in 1..Len(day_schedule) |->
                                   Entry("(clock)", day_schedule[i])]
                     ELSE <<Literal("day_off", "", "Vyhodnoj den!")>>
         IN  [raised |-> "none",
              text   |-> <<Literal("header_day", WEEKDAYS_UA[day], "")>> \o body
                         \o <<Literal("hint_other_day", "", "")>>]

\* handle_current: number of the break line is the time of day as %H:%M
\* prints it, in minutes.
CurrentText(c) ==
    LET current_pair == get_current_pair(get_current_day(c.weekday), c.time)
        next_pair    == get_next_pair(get_current_day(c.weekday), c.time)
    IN  IF current_pair # None
        THEN <<Line("current_pair", "", "(red)", current_pair[1].time,
                    current_pair[1].subject, current_pair[1].pair_number)>>
        ELSE <<Line("break", "", "(check)", <<>>, "", 60 * c.time.hour + c.time.minute)>>
             \o (IF next_pair # None
                 THEN <<Line("next_start", "", "", Split(next_pair[1].time, "-")[1],
                             next_pair[1].subject, 0)>>
                 ELSE <<>>)

\* handle_next.
NextText(c) ==
    LET next_pair == get_next_pair(get_current_day(c.weekday), c.time)
    IN  IF next_pair # None
        THEN <<Line("next_pair", "", "", next_pair[1].time,
                    next_pair[1].subject, next_pair[1].pair_number)>>
        ELSE <<Literal("no_more_pairs", "", "(check)")>>

\* handle_today.
TodayText_no_day_off(c) ==
    LET today_schedule == get_today_schedule(get_current_day(c.weekday))
        current_day    == get_current_day(c.weekday)
        current_pair   == get_current_pair(get_current_day(c.weekday), c.time)
    IN  <<Literal("header_today", WEEKDAYS_UA[current_day], "")>>
        \o MarkedEntries(today_schedule, current_pair, c.time, TodayMarks)

TodayText(c) ==
    LET today_schedule == get_today_schedule(get_current_day(c.weekday))
        current_day    == get_current_day(c.weekday)
        current_pair   == get_current_pair(get_current_day(c.weekday), c.time)
    IN  IF today_schedule = <<>>
        THEN <<Literal("today", WEEKDAYS_UA[current_day], "vyhodnoj den!")>>
        ELSE <<Literal("header_today", WEEKDAYS_UA[current_day], "")>>
             \o MarkedEntries(today_schedule, current_pair, c.time, TodayMarks)

(***************************************************************************)
(* The status page (route '/').  Its template marks today's entries by     *)
(* comparing strings: the start of an entry as SCHEDULE spells it against  *)
(* the time of day as strftime('%H:%M') prints it.                         *)
(***************************************************************************)
\* ord() of the characters of a time string.
Ord(c) ==
    CASE c = "-" -> 45
      [] c = ":" -> 58
      [] OTHER   -> 48 + DigitValue(c)

\* a > b of two str: the first position where they differ decides, by
\* code point; a proper prefix is the smaller one.
RECURSIVE StrGT(_, _)
StrGT(a, b) ==
    IF a = <<>>
    THEN FALSE
    ELSE IF b = <<>>
    THEN TRUE
    ELSE IF a[1] # b[1]
    THEN Ord(a[1]) > Ord(b[1])
    ELSE StrGT(Tail(a), Tail(b))

DigitChar(n) ==
    CASE n = 0 -> "0" [] n = 1 -> "1" [] n = 2 -> "2" [] n = 3 -> "3"
      [] n = 4 -> "4" [] n = 5 -> "5" [] n = 6 -> "6" [] n = 7 -> "7"
      [] n = 8 -> "8" [] n = 9 -> "9"

\* current_time.strftime('%H:%M'): two digits each, zero-padded.
strftime_HM(t) ==
    <<DigitChar(t.hour \div 10), DigitChar(t.hour % 10), ":",
      DigitChar(t.minute \div 10), DigitChar(t.minute % 10)>>

\* The if / elif / else of the template around one entry of today.
PageStatus(pair, current_pair, current_time_str) ==
    IF current_pair # None /\ pair.time = current_pair[1].time
    THEN DayMarks[1]
    ELSE IF StrGT(Split(pair.time, "-")[1],
                  Split(current_time_str, ":")[1] \o <<":">>
                      \o Split(current_time_str, ":")[2])
         THEN DayMarks[2]
         ELSE DayMarks[3]

\* status: the blocks of the page that show the schedule (current entry or
\* break, next entry, today's entries or the day-off heading).  The blocks
\* with the process counters and the list of commands show no entry.
StatusPage(c) ==
    LET current_pair     == get_current_pair(get_current_day(c.weekday), c.time)
        next_pair        == get_next_pair(get_current_day(c.weekday), c.time)
        today_schedule   == get_today_schedule(get_current_day(c.weekday))
        current_day      == get_current_day(c.weekday)
        current_time_str == strftime_HM(c.time)
    IN  (IF current_pair # None
         THEN <<Line("page_current_pair", "", "(red)", current_pair[1].time,
                     current_pair[1].subject, current_pair[1].pair_number)>>
         ELSE <<Line("page_break", "", "(check)", current_time_str, "", 0)>>)
        \o (IF next_pair # None
            THEN <<Line("page_next_pair", "", "", next_pair[1].time,
                        next_pair[1].subject, next_pair[1].pair_number)>>
            ELSE <<>>)
        \o (IF today_schedule # <<>>
            THEN <<Literal("page_today", WEEKDAYS_UA[current_day], "")>>
                 \o [i \in 1..Len(today_schedule) |->
                        Entry(PageStatus(today_schedule[i], current_pair, current_time_str),
                              today_schedule[i])]
            ELSE <<Literal("page_today", WEEKDAYS_UA[current_day], "vyhodnoj den!")>>)

(***************************************************************************)
(* Rendering actions.  The clock reading is drawn in the initial state;    *)
(* each action is one formatter returning its text.                        *)
(***************************************************************************)
NoRender == [op |-> "none", day |-> "", raised |-> "none", text |-> <<>>]

\* The callback data of the keyboard's buttons, less the schedule_ prefix,
\* and the other day names of WEEKDAYS_UA.
ViewDays ==
    {"monday", "tuesday", "wednesday", "thursday", "friday", "full",
     "saturday", "sunday"}

RenderFormatDay ==
    /\ render.op = "none"
    /\ \E day \in DOMAIN WEEKDAYS_UA :
          render' = [op |-> "format_schedule_day", day |-> day, raised |-> "none",
                     text |-> format_schedule_day(day, get_today_schedule(day))]
    /\ UNCHANGED <<lookupVars, gatewayVars, dbVars, bot_stats, served, responses, api>>

RenderSchedule ==
    /\ render.op = "none"
    /\ render' = [op |-> "handle_schedule", day |-> get_current_day(clock.weekday),
                  raised |-> "none", text |-> ScheduleText(clock)]
    /\ UNCHANGED <<lookupVars, gatewayVars, dbVars, bot_stats, served, responses, api>>

RenderScheduleDay ==
    /\ render.op = "none"
    /\ \E day \in ViewDays :
          render' = [op |-> "handle_schedule_day", day |-> day,
                     raised |-> ScheduleDayText(day, clock).raised,
                     text |-> ScheduleDayText(day, clock).text]
    /\ UNCHANGED <<lookupVars, gatewayVars, dbVars, bot_stats, served, responses, api>>

RenderToday ==
    /\ render.op = "none"
    /\ render' = [op |-> "handle_today", day |-> get_current_day(clock.weekday),
                  raised |-> "none", text |-> TodayText(clock)]
    /\ UNCHANGED <<lookupVars, gatewayVars, dbVars, bot_stats, served, responses, api>>

RenderStatusPage ==
    /\ render.op = "none"
    /\ render' = [op |-> "status", day |-> get_current_day(clock.weekday),
                  raised |-> "none", text |-> StatusPage(clock)]
    /\ UNCHANGED <<lookupVars, gatewayVars, dbVars, bot_stats, served, responses, api>>

(***************************************************************************)
(* The messaging gateway: send_message, edit_message and                   *)
(* answer_callback_query.  Each is a loop of max_attempts attempts; one    *)
(* attempt is one session.post through the adapter create_session mounts,  *)
(* which itself re-sends a request up to RetryTotal times, then            *)
(* raise_for_status, response.json() and the test of result['ok'].         *)
(***************************************************************************)
max_attempts == 3

RetryTotal == 5

GatewayOps == {"send_message", "edit_message", "answer_callback_query"}

\* What one HTTP request to the Telegram API can come to.
\*   ok, not_ok         a 2xx response whose JSON body has ok true / ok false
\*   bad_body           a 2xx response whose body is not JSON
\*   client_error       a 4xx status other than 429 (400, 401, 403, ...)
\*   too_many_requests  status 429
\*   server_error       status 500, 502, 503 or 504
\*   connect_timeout, read_timeout, conn_error   no response at all
\* (A 5xx status outside status_forcelist is handled as client_error is.)
TransportResults ==
    {"ok", "not_ok", "bad_body", "client_error", "too_many_requests", "server_error",
     "connect_timeout", "read_timeout", "conn_error"}

\* Retry(total=5, status_forcelist=[429, 500, 502, 503, 504],
\* allowed_methods=[..., "POST"]): the results after which the adapter
\* sends the request again while retries are left.
AdapterRetries(r) ==
    r \in {"too_many_requests", "server_error",
           "connect_timeout", "read_timeout", "conn_error"}

\* What the attempt raises once the adapter gives up, or what the lines after
\* session.post make of the response: the exception class, or "ok" / "not_ok"
\* when nothing is raised.
AttemptOutcome(r) ==
    CASE r = "ok"                -> "ok"
      [] r = "not_ok"            -> "not_ok"
      [] r = "bad_body"          -> "JSONDecodeError"
      [] r = "client_error"      -> "HTTPError"
      [] r = "too_many_requests" -> "RetryError"
      [] r = "server_error"      -> "RetryError"
      [] r = "connect_timeout"   -> "ConnectTimeout"
      [] r = "read_timeout"      -> "ConnectionError"
      [] r = "conn_error"        -> "ConnectionError"

\* The classes an exception is an instance of (requests.exceptions).
ExceptionClasses(e) ==
    CASE e = "ConnectTimeout"  -> {"ConnectTimeout", "Timeout", "ConnectionError", "Exception"}
      [] e = "ConnectionError" -> {"ConnectionError", "Exception"}
      [] e = "HTTPError"       -> {"HTTPError", "Exception"}
      [] e = "RetryError"      -> {"RetryError", "Exception"}
      [] e = "JSONDecodeError" -> {"JSONDecodeError", "ValueError", "Exception"}

\* Every operation with the clauses of answer_callback_query.
ExceptClauses_no_http(op) == <<"Timeout", "ConnectionError", "Exception">>

\* The except clauses of each operation's try, in source order.
ExceptClauses(op) ==
    IF op = "answer_callback_query"
    THEN <<"Timeout", "ConnectionError", "Exception">>
    ELSE <<"Timeout", "ConnectionError", "HTTPError", "Exception">>

\* Python's dispatch: the first clause the exception is an instance of, or
\* "escapes" when there is none.
Handler(op, e) ==
    LET clauses  == ExceptClauses(op)
        matching == {i \in 1..Len(clauses) : clauses[i] \in ExceptionClasses(e)}
    IN  IF matching = {}
        THEN "escapes"
        ELSE clauses[CHOOSE i \in matching : \A j \in matching : i <= j]

\* What a clause logs.
ClauseLog(h) ==
    CASE h = "Timeout"         -> "warning_timeout"
      [] h = "ConnectionError" -> "warning_connection"
      [] h = "HTTPError"       -> "error_http"
      [] h = "Exception"       -> "error_unexpected"

\* A "break" in the Timeout clause as well.
ClauseBreaks_timeout(h) == h \in {"HTTPError", "Timeout"}

\* No "break" in any clause.
ClauseBreaks_never(h) == FALSE

\* "break" in the clause: the loop is left.
ClauseBreaks(h) == h = "HTTPError"

\* The sleep without its "if attempt < max_attempts - 1".
ClauseSleep_every_attempt(h, attempt) ==
    IF h \in {"Timeout", "ConnectionError", "Exception"} THEN <<2 ^ attempt>> ELSE <<>>

\* "if attempt < max_attempts - 1: time_module.sleep(2 ** attempt)" in the
\* clause: the seconds slept, none for a clause without it.
ClauseSleep(h, attempt) ==
    IF h \in {"Timeout", "ConnectionError", "Exception"} /\ attempt < max_attempts - 1
    THEN <<2 ^ attempt>>
    ELSE <<>>

\* Whether the Telegram API carried the request out (1) or not (0), by what
\* came back: it did when it answered ok; it never got the request, or
\* refused it, when the connection failed or the status is an error; when
\* the response did not come within the read timeout, either.
CarriedOut(r) ==
    CASE r = "ok"           -> {1}
      [] r = "read_timeout" -> {0, 1}
      [] OTHER              -> {0}

IdleCall == [op |-> "none", pc |-> "idle", attempt |-> 0, retries |-> 0]

InitGateway ==
    /\ call = IdleCall
    /\ requests = 0
    /\ attempts = <<>>
    /\ sleeps = <<>>
    /\ log = <<>>
    /\ ret = "pending"
    /\ delivered = 0

\* A handler calls the operation: the loop starts with attempt 0.
CallGateway ==
    /\ call.pc = "idle"
    /\ \E op \in GatewayOps :
           call' = [op |-> op, pc |-> "post", attempt |-> 0, retries |-> RetryTotal]
    /\ UNCHANGED <<requests, attempts, sleeps, log, ret, delivered>>
    /\ UNCHANGED <<lookupVars, dbVars, appVars>>

\* The loop goes on to its next iteration, or is over: the final
\* logger.error and "return None".
LoopContinues(attempt, newLog, newSleeps) ==
    /\ sleeps' = sleeps \o newSleeps
    /\ IF attempt + 1 < max_attempts
       THEN /\ call' = [call EXCEPT !.attempt = attempt + 1, !.retries = RetryTotal]
            /\ log' = log \o newLog
            /\ ret' = ret
       ELSE /\ call' = [call EXCEPT !.pc = "done"]
            /\ log' = log \o newLog \o <<"error_failed">>
            /\ ret' = "None"

\* The adapter sends the request again: still inside the same session.post.
AdapterResend ==
    /\ call.pc = "post"
    /\ call.retries > 0
    /\ \E r \in TransportResults :
           /\ AdapterRetries(r)
           /\ requests' = requests + 1
           /\ \E done \in CarriedOut(r) : delivered' = delivered + done
           /\ call' = [call EXCEPT !.retries = call.retries - 1]
    /\ UNCHANGED <<attempts, sleeps, log, ret>>
    /\ UNCHANGED <<lookupVars, dbVars, appVars>>

\* session.post returns or raises, and the rest of the loop body runs.
AttemptEnds ==
    /\ call.pc = "post"
    /\ UNCHANGED <<lookupVars, dbVars, appVars>>
    /\ \E r \in TransportResults :
           /\ AdapterRetries(r) => call.retries = 0
           /\ requests' = requests + 1
           /\ \E done \in CarriedOut(r) : delivered' = delivered + done
           /\ attempts' = Append(attempts, r)
           /\ LET o == AttemptOutcome(r)
                  h == IF o \in {"ok", "not_ok"} THEN "none" ELSE Handler(call.op, o)
              IN  CASE o = "ok" ->
                         /\ call' = [call EXCEPT !.pc = "done"]
                         /\ log' = IF call.op = "send_message"
                                   THEN Append(log, "info_sent") ELSE log
                         /\ ret' = "result"
                         /\ UNCHANGED sleeps
                    [] o = "not_ok" ->
                         LoopContinues(call.attempt, <<"error_api">>, <<>>)
                    [] o \notin {"ok", "not_ok"} /\ h = "escapes" ->
                         /\ call' = [call EXCEPT !.pc = "done"]
                         /\ ret' = "raised"
                         /\ UNCHANGED <<sleeps, log>>
                    [] o \notin {"ok", "not_ok"} /\ h # "escapes" /\ ClauseBreaks(h) ->
                         /\ call' = [call EXCEPT !.pc = "done"]
                         /\ log' = log \o <<ClauseLog(h), "error_failed">>
                         /\ ret' = "None"
                         /\ UNCHANGED sleeps
                    [] OTHER ->
                         LoopContinues(call.attempt, <<ClauseLog(h)>>,
                                       ClauseSleep(h, call.attempt))

(***************************************************************************)
(* The users table and update_user_stats.                                  *)
(*                                                                         *)
(* Every call opens its own connection to bot_database.db, so requests     *)
(* that run at the same time interleave statement by statement.  SQLite    *)
(* lets one connection at a time hold an open write transaction; the       *)
(* others read the committed table.  sqlite3 opens the transaction at the  *)
(* UPDATE or INSERT and conn.commit() ends it.                             *)
(***************************************************************************)
MaxUpserts == 4

Workers == {"r1", "r2"}

ChatIds == {7, 8}

NULL == "NULL"

\* (username, first_name, last_name) as handle_message passes them on.
NameInputs == {<<NULL, NULL, NULL>>, <<"ann", "Ann", NULL>>}

COALESCE(a, b) == IF a # NULL THEN a ELSE b

\* SELECT message_count FROM users WHERE chat_id = ?, then "if result:".
RowFound(rows, chat_id) == \E r \in rows : r.chat_id = chat_id

\* An UPDATE that sets first_interaction as well.
SqlUpdate_resets_first(rows, chat_id, current_time, names) ==
    {IF r.chat_id = chat_id
     THEN [r EXCEPT !.first_interaction = current_time,
                    !.last_interaction = current_time,
                    !.message_count = r.message_count + 1,
                    !.username = COALESCE(names[1], r.username),
                    !.first_name = COALESCE(names[2], r.first_name),
                    !.last_name = COALESCE(names[3], r.last_name)]
     ELSE r : r \in rows}

\* UPDATE users SET last_interaction = ?, message_count = message_count + 1,
\* username = COALESCE(?, username), ... WHERE chat_id = ?
SqlUpdate(rows, chat_id, current_time, names) ==
    {IF r.chat_id = chat_id
     THEN [r EXCEPT !.last_interaction = current_time,
                    !.message_count = r.message_count + 1,
                    !.username = COALESCE(names[1], r.username),
                    !.first_name = COALESCE(names[2], r.first_name),
                    !.last_name = COALESCE(names[3], r.last_name)]
     ELSE r : r \in rows}

\* A users table whose chat_id is no key.
PrimaryKeyViolated_no_key(rows, chat_id) == FALSE

\* chat_id INTEGER PRIMARY KEY: an INSERT of a chat_id the table holds fails.
PrimaryKeyViolated(rows, chat_id) == \E r \in rows : r.chat_id = chat_id

\* INSERT INTO users (...) VALUES (?, ?, ?, ?, ?, ?, 1)
SqlInsert(rows, chat_id, current_time, names) ==
    rows \cup {[chat_id |-> chat_id, username |-> names[1], first_name |-> names[2],
                last_name |-> names[3], first_interaction |-> current_time,
                last_interaction |-> current_time, message_count |-> 1]}

\* The except clauses of update_user_stats, and the classes of what sqlite3
\* raises.
UpsertClauses == <<"Exception">>

SqliteClasses(e) ==
    CASE e = "IntegrityError"   -> {"IntegrityError", "DatabaseError", "Error", "Exception"}
      [] e = "OperationalError" -> {"OperationalError", "DatabaseError", "Error", "Exception"}

\* "except sqlite3.OperationalError" in place of "except Exception".
UpsertCatches_operational_only(e) == e = "OperationalError"

UpsertCatches(e) == \E i \in 1..Len(UpsertClauses) : UpsertClauses[i] \in SqliteClasses(e)

NoTxn == [owner |-> "none", rows |-> {}]

IdleWorker == [pc |-> "idle", chat_id |-> 0, names |-> <<NULL, NULL, NULL>>,
               result |-> FALSE, current_time |-> 0]

\* Per chat, what has happened so far (history, not program state):
\*   calls       calls of update_user_stats that have ended
\*   committed   calls that ended with conn.commit() done
\*   integrity, operational   calls that ended in the except clause, by error
\*   escaped     calls that raised to their caller
\*   overlapped  two calls for the chat were ever in progress together
\*   first, last current_time of the first and of the latest committed call
NoHistory == [calls |-> 0, committed |-> 0, integrity |-> 0, operational |-> 0,
              escaped |-> 0, overlapped |-> FALSE, first |-> 0, last |-> 0]

InitDb ==
    /\ users = {}
    /\ txn = NoTxn
    /\ worker = [w \in Workers |-> IdleWorker]
    /\ now = 1
    /\ begun = 0
    /\ history = [c \in ChatIds |-> NoHistory]

\* handle_message calls update_user_stats(chat_id, username, first_name, last_name).
BeginUpsert(w) ==
    /\ UNCHANGED <<lookupVars, gatewayVars, appVars>>
    /\ worker[w].pc = "idle"
    /\ begun < MaxUpserts
    /\ \E c \in ChatIds, names \in NameInputs :
           /\ worker' = [worker EXCEPT ![w] = [IdleWorker EXCEPT !.pc = "select",
                                                                 !.chat_id = c,
                                                                 !.names = names]]
           /\ history' = [history EXCEPT ![c].overlapped =
                              @ \/ \E v \in Workers \ {w} :
                                       worker[v].pc # "idle" /\ worker[v].chat_id = c]
    /\ begun' = begun + 1
    /\ UNCHANGED <<users, txn, now>>

\* conn = sqlite3.connect(...); the SELECT; result = cursor.fetchone();
\* current_time = datetime.now(UKRAINE_TZ).
SelectUser(w) ==
    /\ UNCHANGED <<lookupVars, gatewayVars, appVars>>
    /\ worker[w].pc = "select"
    /\ worker' = [worker EXCEPT ![w].pc = "write",
                                ![w].result = RowFound(users, worker[w].chat_id),
                                ![w].current_time = now]
    /\ now' = now + 1
    /\ UNCHANGED <<users, txn, begun, history>>

\* The call ends in "except Exception as e: logger.error(...)", or the
\* exception leaves it.  The connection goes with the call, and its open
\* transaction is rolled back.
UpsertRaises(w, e) ==
    LET c == worker[w].chat_id
    IN  /\ worker' = [worker EXCEPT ![w] = IdleWorker]
        /\ txn' = IF txn.owner = w THEN NoTxn ELSE txn
        /\ history' =
               IF UpsertCatches(e)
               THEN IF e = "IntegrityError"
                    THEN [history EXCEPT ![c].calls = @ + 1, ![c].integrity = @ + 1]
                    ELSE [history EXCEPT ![c].calls = @ + 1, ![c].operational = @ + 1]
               ELSE [history EXCEPT ![c].escaped = @ + 1]
        /\ UNCHANGED <<users, now, begun>>

\* "if result:" the UPDATE, "else:" the INSERT; either opens the write
\* transaction, which no other connection may hold.
WriteUser(w) ==
    /\ UNCHANGED <<lookupVars, gatewayVars, appVars>>
    /\ worker[w].pc = "write"
    /\ txn.owner = "none"
    /\ LET c == worker[w].chat_id
           t == worker[w].current_time
           n == worker[w].names
       IN  IF worker[w].result
           THEN /\ txn' = [owner |-> w, rows |-> SqlUpdate(users, c, t, n)]
                /\ worker' = [worker EXCEPT ![w].pc = "commit"]
                /\ UNCHANGED <<users, now, begun, history>>
           ELSE IF PrimaryKeyViolated(users, c)
                THEN UpsertRaises(w, "IntegrityError")
                ELSE /\ txn' = [owner |-> w, rows |-> SqlInsert(users, c, t, n)]
                     /\ worker' = [worker EXCEPT ![w].pc = "commit"]
                     /\ UNCHANGED <<users, now, begun, history>>

\* Another connection holds the write transaction for longer than the busy
\* timeout: "database is locked".
WriteLocked(w) ==
    /\ UNCHANGED <<lookupVars, gatewayVars, appVars>>
    /\ worker[w].pc = "write"
    /\ txn.owner \notin {"none", w}
    /\ UpsertRaises(w, "OperationalError")

\* conn.commit(); conn.close(); the call returns.
CommitUser(w) ==
    /\ UNCHANGED <<lookupVars, gatewayVars, appVars>>
    /\ worker[w].pc = "commit"
    /\ txn.owner = w
    /\ users' = txn.rows
    /\ txn' = NoTxn
    /\ LET c == worker[w].chat_id
           t == worker[w].current_time
       IN  history' = [history EXCEPT ![c].calls = @ + 1,
                                      ![c].committed = @ + 1,
                                      ![c].first = IF @ = 0 THEN t ELSE @,
                                      ![c].last = t]
    /\ worker' = [worker EXCEPT ![w] = IdleWorker]
    /\ UNCHANGED <<now, begun>>

\* The storage fails under the statement the call is about to run (the file
\* cannot be opened, written or synced).
StorageFault(w) ==
    /\ UNCHANGED <<lookupVars, gatewayVars, appVars>>
    /\ worker[w].pc \in {"select", "write", "commit"}
    /\ UpsertRaises(w, "OperationalError")

(***************************************************************************)
(* The specifications.  In each, the other parts of the program are at     *)
(* rest.                                                                   *)
(***************************************************************************)
(***************************************************************************)
(* Strings whose characters the program looks at (str.startswith,          *)
(* str.replace) are the sequences of their characters.                     *)
(***************************************************************************)
Slash == <<"/">>

Cmd_start == <<"/", "s", "t", "a", "r", "t">>

Cmd_schedule == <<"/", "s", "c", "h", "e", "d", "u", "l", "e">>

Cmd_current == <<"/", "c", "u", "r", "r", "e", "n", "t">>

Cmd_next == <<"/", "n", "e", "x", "t">>

Cmd_today == <<"/", "t", "o", "d", "a", "y">>

Cmd_help == <<"/", "h", "e", "l", "p">>

Cmd_stats == <<"/", "s", "t", "a", "t", "s">>

Prefix_schedule == <<"s", "c", "h", "e", "d", "u", "l", "e", "_">>

\* Texts a message can carry besides the bare commands.
Text_today_at_bot == <<"/", "t", "o", "d", "a", "y", "@", "e", "2", "4", "b", "o", "t">>

Text_unknown == <<"/", "m", "e", "n", "u">>

Text_plain == <<"h", "i">>

\* The strings a callback's day is compared with, by their characters.
Spelling ==
    [monday    |-> <<"m", "o", "n", "d", "a", "y">>,
     tuesday   |-> <<"t", "u", "e", "s", "d", "a", "y">>,
     wednesday |-> <<"w", "e", "d", "n", "e", "s", "d", "a", "y">>,
     thursday  |-> <<"t", "h", "u", "r", "s", "d", "a", "y">>,
     friday    |-> <<"f", "r", "i", "d", "a", "y">>,
     saturday  |-> <<"s", "a", "t", "u", "r", "d", "a", "y">>,
     sunday    |-> <<"s", "u", "n", "d", "a", "y">>,
     full      |-> <<"f", "u", "l", "l">>]


\* The element of a set of one element.  Below, x \in {e} binds x to the
\* value of e: a local variable of the code, assigned once.
The(S) == CHOOSE x \in S : TRUE

StartsWith(s, prefix) ==
    Len(s) >= Len(prefix) /\ SubSeq(s, 1, Len(prefix)) = prefix

\* s.replace(old, ''): every occurrence of old is taken out, left to right.
RECURSIVE Replace(_, _)
Replace(s, old) ==
    IF s = <<>>
    THEN <<>>
    ELSE IF StartsWith(s, old)
         THEN Replace(SubSeq(s, Len(old) + 1, Len(s)), old)
         ELSE <<Head(s)>> \o Replace(Tail(s), old)

\* The string with these characters, as the key it is looked up by.
StringOf(chars) ==
    IF \E k \in DOMAIN Spelling : Spelling[k] = chars
    THEN CHOOSE k \in DOMAIN Spelling : Spelling[k] = chars
    ELSE "(another string)"

(***************************************************************************)
(* The webhook, handle_message and handle_callback_query.                  *)
(*                                                                         *)
(* One request is handled to its end before the next one (requests that    *)
(* overlap in update_user_stats are the subject of SpecDb).  A handler     *)
(* ignores what a gateway operation returns, so the calls a request makes  *)
(* do not depend on how they end: the action first runs the handler, then  *)
(* lets each call end in one of the ways the operation's loop can end.     *)
(***************************************************************************)
MaxRequests == 2

\* Chat 9 stands for the chat -1002055203579, a number outside TLC's
\* integers; str(chat_id) of the others is never looked at.
WebhookChats == {7, 9}

str(chat_id) == IF chat_id = 9 THEN "-1002055203579" ELSE "(digits)"

AdminChats == {"-1002055203579"}

\* The 'text' of a message as JSON carries it: a string, or another value.
StrText(chars) == [is_str |-> TRUE, chars |-> chars]

NotAString == [is_str |-> FALSE, chars |-> <<>>]

MessageTexts ==
    {StrText(Cmd_start), StrText(Cmd_schedule), StrText(Cmd_current), StrText(Cmd_next),
     StrText(Cmd_today), StrText(Cmd_help), StrText(Cmd_stats), StrText(Text_today_at_bot),
     StrText(Text_unknown), StrText(Text_plain), NotAString}

\* The data of the keyboard's buttons (schedule_<day>, schedule_full), and
\* data no button carries.
CallbackData ==
    {Prefix_schedule \o Spelling[d] : d \in DOMAIN Spelling}
    \cup {Prefix_schedule \o <<"x">>, <<"n", "o", "o", "p">>}

\* An update: json_data with a 'message', with a 'callback_query', or with
\* neither.  chat is message['chat']['id'] (of the callback's message, for a
\* callback), sender the three names of message['from'], text
\* message['text'], data callback_query['data']; None when the field is
\* missing.
Update(kind, chat, sender, text, data) ==
    [kind |-> kind, chat |-> chat, sender |-> sender, text |-> text, data |-> data]

Updates ==
    {Update("message", Some(7), Some(<<"ann", "Ann", NULL>>), Some(t), None) :
        t \in MessageTexts}
    \cup {Update("message", Some(9), Some(<<NULL, NULL, NULL>>), Some(StrText(t)), None) :
             t \in {Cmd_stats, Cmd_today, Text_plain}}
    \cup {Update("message", Some(c), Some(<<NULL, NULL, NULL>>), None, None) :
             c \in WebhookChats}
    \cup {Update("message", None, Some(<<NULL, NULL, NULL>>), Some(StrText(Cmd_today)), None),
          Update("message", Some(7), None, Some(StrText(Cmd_today)), None),
          Update("message", Some(7), None, None, None)}
    \cup {Update("callback_query", Some(7), None, None, Some(d)) : d \in CallbackData}
    \cup {Update("callback_query", Some(7), None, None, None),
          Update("callback_query", None, None, None, Some(Prefix_schedule \o Spelling.monday)),
          Update("other", None, None, None, None)}

\* Clock readings of the requests: during an entry, between two entries,
\* on a day off.
RequestClocks ==
    {[weekday |-> 0, time |-> Time(9, 0, 0)],
     [weekday |-> 0, time |-> Time(9, 55, 0)],
     [weekday |-> 5, time |-> Time(12, 0, 0)]}

\* What sqlite3 raises in update_user_stats when the table cannot be read or
\* written ("none": nothing).
UpsertFaults == {"none", "OperationalError"}

\* An update_user_stats without its try: what sqlite3 raises leaves it.
update_user_stats_no_try(rows, chat_id, names, current_time, fault) ==
    IF fault = "none"
    THEN [rows   |-> IF RowFound(rows, chat_id)
                     THEN SqlUpdate(rows, chat_id, current_time, names)
                     ELSE SqlInsert(rows, chat_id, current_time, names),
          logged |-> FALSE,
          raised |-> "none"]
    ELSE [rows |-> rows, logged |-> FALSE, raised |-> fault]

\* update_user_stats run from connect to close with no other connection
\* open: the table it leaves, whether it logged an error, what it raises.
update_user_stats(rows, chat_id, names, current_time, fault) ==
    IF fault = "none"
    THEN [rows   |-> IF RowFound(rows, chat_id)
                     THEN SqlUpdate(rows, chat_id, current_time, names)
                     ELSE SqlInsert(rows, chat_id, current_time, names),
          logged |-> FALSE,
          raised |-> "none"]
    ELSE [rows   |-> rows,
          logged |-> UpsertCatches(fault),
          raised |-> IF UpsertCatches(fault) THEN "none" ELSE fault]

\* A call of a gateway operation: the operation and its arguments.
GatewayCall(op, chat_id, text, keyboard) ==
    [op |-> op, chat_id |-> chat_id, text |-> text, keyboard |-> keyboard]

\* SUM(message_count), "or 0".
RECURSIVE SumMessageCount(_)
SumMessageCount(rows) ==
    IF rows = {}
    THEN 0
    ELSE LET r == CHOOSE x \in rows : TRUE
         IN  r.message_count + SumMessageCount(rows \ {r})

\* handle_stats: the text it sends.  Of the report, the lines with the
\* number of rows, the sum of the counts and the two counters of bot_stats;
\* stats_fault: a statement of handle_stats raises.
StatsText(stats, rows, stats_fault) ==
    IF stats_fault
    THEN <<Literal("stats_error", "", "")>>
    ELSE <<Line("stats_users", "", "", <<>>, "", Cardinality(rows)),
           Line("stats_total", "", "", <<>>, "", SumMessageCount(rows)),
           Line("stats_session", "", "", <<>>, "", stats.messages_processed),
           Line("stats_active_chats", "", "", <<>>, "", Cardinality(stats.active_chats))>>

\* A chain whose /stats branch does not test the chat.
Dispatch_stats_for_all(chat_id, chars) ==
    IF StartsWith(chars, Cmd_start) THEN "handle_start"
    ELSE IF StartsWith(chars, Cmd_schedule) THEN "handle_schedule"
    ELSE IF StartsWith(chars, Cmd_current) THEN "handle_current"
    ELSE IF StartsWith(chars, Cmd_next) THEN "handle_next"
    ELSE IF StartsWith(chars, Cmd_today) THEN "handle_today"
    ELSE IF StartsWith(chars, Cmd_help) THEN "handle_start"
    ELSE IF StartsWith(chars, Cmd_stats) THEN "handle_stats"
    ELSE "unknown"

\* The if/elif chain of handle_message, in source order.
Dispatch(chat_id, chars) ==
    IF StartsWith(chars, Cmd_start) THEN "handle_start"
    ELSE IF StartsWith(chars, Cmd_schedule) THEN "handle_schedule"
    ELSE IF StartsWith(chars, Cmd_current) THEN "handle_current"
    ELSE IF StartsWith(chars, Cmd_next) THEN "handle_next"
    ELSE IF StartsWith(chars, Cmd_today) THEN "handle_today"
    ELSE IF StartsWith(chars, Cmd_help) THEN "handle_start"
    ELSE IF StartsWith(chars, Cmd_stats) /\ str(chat_id) \in AdminChats THEN "handle_stats"
    ELSE "unknown"

\* What handle_message's handlers send: the text and whether the keyboard
\* goes with it.
Reply(handler, c, stats, rows, stats_fault) ==
    CASE handler = "handle_start"    -> [text |-> <<Literal("welcome", "", "")>>,
                                         keyboard |-> FALSE]
      [] handler = "handle_schedule" -> [text |-> ScheduleText(c), keyboard |-> TRUE]
      [] handler = "handle_current"  -> [text |-> CurrentText(c), keyboard |-> FALSE]
      [] handler = "handle_next"     -> [text |-> NextText(c), keyboard |-> FALSE]
      [] handler = "handle_today"    -> [text |-> TodayText(c), keyboard |-> FALSE]
      [] handler = "handle_stats"    -> [text |-> StatsText(stats, rows, stats_fault),
                                         keyboard |-> FALSE]
      [] handler = "unknown"         -> [text |-> <<Literal("unknown_command", "", "")>>,
                                         keyboard |-> FALSE]

\* The classes an exception raised in the handlers is an instance of.
PythonClasses(e) ==
    CASE e = "AttributeError" -> {"AttributeError", "Exception"}
      [] e = "KeyError"       -> {"KeyError", "LookupError", "Exception"}
      [] e = "NameError"      -> {"NameError", "Exception"}
      [] OTHER                -> SqliteClasses(e)

\* A handle_message without its except clause.
HandleMessageCatches_nothing(e) == FALSE

\* "except Exception as e:" of handle_message.
HandleMessageCatches(e) == "Exception" \in PythonClasses(e)

\* A body without "if not text.startswith('/'): return".
HandleMessageBody_answers_everything(chat_id, text, c, stats, upsert, stats_fault) ==
    IF upsert.raised # "none"
    THEN [raised |-> upsert.raised, calls |-> <<>>]
    ELSE IF ~text.is_str
    THEN [raised |-> "AttributeError", calls |-> <<>>]
    ELSE The({[raised |-> "none",
               calls  |-> <<GatewayCall("send_message", chat_id, reply.text,
                                        reply.keyboard)>>] :
                 reply \in {Reply(Dispatch(chat_id, text.chars), c, stats, upsert.rows,
                                  stats_fault)}})

\* handle_message.  What the body of the try comes to: the exception it
\* raises ("none": it runs to its end or returns) and the calls it makes.
HandleMessageBody(chat_id, text, c, stats, upsert, stats_fault) ==
    IF upsert.raised # "none"
    THEN [raised |-> upsert.raised, calls |-> <<>>]
    ELSE IF ~text.is_str
    THEN [raised |-> "AttributeError", calls |-> <<>>]
    ELSE IF ~StartsWith(text.chars, Slash)
    THEN [raised |-> "none", calls |-> <<>>]
    ELSE The({[raised |-> "none",
               calls  |-> <<GatewayCall("send_message", chat_id, reply.text,
                                        reply.keyboard)>>] :
                 reply \in {Reply(Dispatch(chat_id, text.chars), c, stats, upsert.rows,
                                  stats_fault)}})

\* A handle_message that sends the apology after every message.
HandleMessageEnds_always_apologises(chat_id, counted, upsert, body) ==
    [bot_stats |-> counted,
     users     |-> upsert.rows,
     upserts   |-> 1,
     logged    |-> upsert.logged,
     exception |-> body.raised,
     raised    |-> "none",
     calls     |-> body.calls
                   \o <<GatewayCall("send_message", chat_id,
                                    <<Literal("apology", "", "")>>, FALSE)>>]

\* The except clause of handle_message, after the body of its try.
HandleMessageEnds(chat_id, counted, upsert, body) ==
    LET apology == GatewayCall("send_message", chat_id, <<Literal("apology", "", "")>>, FALSE)
    IN  [bot_stats |-> counted,
         users     |-> upsert.rows,
         upserts   |-> 1,
         logged    |-> upsert.logged,
         exception |-> body.raised,
         raised    |-> IF body.raised # "none" /\ ~HandleMessageCatches(body.raised)
                       THEN body.raised ELSE "none",
         calls     |-> IF body.raised # "none" /\ HandleMessageCatches(body.raised)
                       THEN body.calls \o <<apology>>
                       ELSE body.calls]

handle_message(chat_id, text, user_data, c, stats, rows, current_time, fault, stats_fault) ==
    The(UNION {{HandleMessageEnds(chat_id, counted, upsert, body) :
                   body \in {HandleMessageBody(chat_id, text, c, counted, upsert,
                                               stats_fault)}} :
               counted \in {[messages_processed |-> stats.messages_processed + 1,
                             active_chats       |-> stats.active_chats \cup {chat_id}]},
               upsert \in {update_user_stats(rows, chat_id, user_data, current_time,
                                             fault)}})

\* A handle_callback_query that answers the callback before it edits.
handle_callback_query_answers_first(chat, data, c) ==
    IF chat = None
    THEN [exception |-> "KeyError", calls |-> <<>>]
    ELSE IF data = None
    THEN [exception |-> "AttributeError", calls |-> <<>>]
    ELSE IF StartsWith(data[1], Prefix_schedule)
    THEN The({IF view.raised # "none"
              THEN [exception |-> view.raised, calls |-> <<>>]
              ELSE [exception |-> "none",
                    calls |-> <<GatewayCall("answer_callback_query", chat[1], <<>>,
                                            FALSE),
                                GatewayCall("edit_message", chat[1], view.text, TRUE)>>] :
                 view \in {ScheduleDayText(StringOf(Replace(data[1], Prefix_schedule)),
                                           c)}})
    ELSE [exception |-> "none",
          calls |-> <<GatewayCall("answer_callback_query", chat[1],
                                  <<Literal("unknown_command", "", "")>>, FALSE)>>]

\* handle_callback_query: no statement of it is inside a try.
handle_callback_query(chat, data, c) ==
    IF chat = None
    THEN [exception |-> "KeyError", calls |-> <<>>]
    ELSE IF data = None
    THEN [exception |-> "AttributeError", calls |-> <<>>]
    ELSE IF StartsWith(data[1], Prefix_schedule)
    THEN The({IF view.raised # "none"
              THEN [exception |-> view.raised, calls |-> <<>>]
              ELSE [exception |-> "none",
                    calls |-> <<GatewayCall("edit_message", chat[1], view.text, TRUE),
                                GatewayCall("answer_callback_query", chat[1], <<>>,
                                            FALSE)>>] :
                 view \in {ScheduleDayText(StringOf(Replace(data[1], Prefix_schedule)),
                                           c)}})
    ELSE [exception |-> "none",
          calls |-> <<GatewayCall("answer_callback_query", chat[1],
                                  <<Literal("unknown_command", "", "")>>, FALSE)>>]

\* webhook.  handled: "message", "callback_query" or "none", the handler the
\* update was passed to; exception: what was raised inside that handler;
\* raised: what reached the except clause of webhook.
WebhookResult(body, status, handled, exception, raised, stats, rows, upserts, logged, calls) ==
    [body |-> body, status |-> status, handled |-> handled, exception |-> exception,
     raised |-> raised, bot_stats |-> stats, users |-> rows, upserts |-> upserts,
     logged |-> logged, calls |-> calls]

\* A webhook that answers 'OK', 200 in its except clause as well.
Responds_always_ok(raised) == <<"OK", 200>>

\* "return 'OK', 200" at the end of the try, "return 'Error', 500" in
\* "except Exception as e:"; what the clause does not catch is Flask's to
\* answer.
Responds(raised) ==
    IF raised = "none"
    THEN <<"OK", 200>>
    ELSE IF "Exception" \in PythonClasses(raised)
         THEN <<"Error", 500>>
         ELSE <<"Internal Server Error", 500>>

webhook(u, c, stats, rows, current_time, fault, stats_fault) ==
    CASE u.kind = "message" ->
           IF u.chat = None \/ u.sender = None
           THEN WebhookResult(Responds("KeyError")[1], Responds("KeyError")[2], "none",
                              "none", "KeyError", stats, rows, 0, FALSE, <<>>)
           ELSE IF u.text = None
           THEN WebhookResult(Responds("none")[1], Responds("none")[2], "none",
                              "none", "none", stats, rows, 0, FALSE, <<>>)
           ELSE The({WebhookResult(Responds(h.raised)[1], Responds(h.raised)[2], "message",
                                   h.exception, h.raised, h.bot_stats, h.users,
                                   h.upserts, h.logged, h.calls) :
                        h \in {handle_message(u.chat[1], u.text[1], u.sender[1], c, stats,
                                              rows, current_time, fault, stats_fault)}})
      [] u.kind = "callback_query" ->
           The({WebhookResult(Responds(h.exception)[1], Responds(h.exception)[2],
                              "callback_query", h.exception, h.exception,
                              stats, rows, 0, FALSE, h.calls) :
                   h \in {handle_callback_query(u.chat, u.data, c)}})
      [] OTHER ->
           WebhookResult(Responds("none")[1], Responds("none")[2], "none",
                         "none", "none", stats, rows, 0, FALSE, <<>>)

(***************************************************************************)
(* How a call of a gateway operation can end, as a handler sees it: what   *)
(* it returns and after how many attempts.  A run is the results that end  *)
(* the attempts of one call.                                               *)
(***************************************************************************)
RunResults == {"ok", "client_error", "read_timeout"}

\* After an attempt (counted from 0) that ended with r, the loop makes another.
LoopGoesOn(op, r, attempt) ==
    LET o == AttemptOutcome(r)
    IN  /\ o # "ok"
        /\ o # "not_ok" => /\ Handler(op, o) # "escapes"
                           /\ ~ClauseBreaks(Handler(op, o))
        /\ attempt + 1 < max_attempts

GatewayRuns(op) ==
    {run \in UNION {[1..n -> RunResults] : n \in 1..max_attempts} :
        \A i \in 1..Len(run) : (i < Len(run)) <=> LoopGoesOn(op, run[i], i - 1)}

RunReturn(op, run) ==
    LET o == AttemptOutcome(run[Len(run)])
    IN  IF o = "ok" THEN "result"
        ELSE IF o # "not_ok" /\ Handler(op, o) = "escapes" THEN "raised"
        ELSE "None"

GatewayEndings(op) ==
    {[ret |-> RunReturn(op, run), attempts |-> Len(run)] : run \in GatewayRuns(op)}

\* The ways the calls of one request can end, call by call.
Endings(calls) ==
    {e \in [1..Len(calls) -> UNION {GatewayEndings(op) : op \in GatewayOps}] :
        \A i \in 1..Len(calls) : e[i] \in GatewayEndings(calls[i].op)}

(***************************************************************************)
(* /api/status.  A name a function uses and does not assign is looked up   *)
(* in the globals of flask_app.py when the function runs.                  *)
(***************************************************************************)
ModuleGlobals ==
    {"os", "logging", "requests", "json", "sqlite3", "time_module", "datetime", "time",
     "Optional", "pytz", "HTTPAdapter", "Retry", "Flask", "jsonify",
     "render_template_string", "request", "load_dotenv", "SCHEDULE", "WEEKDAYS",
     "WEEKDAYS_UA", "BREAK_SCHEDULE", "logger", "TOKEN", "WEBHOOK_URL", "BASE_URL",
     "SEND_MESSAGE_URL", "EDIT_MESSAGE_URL", "ANSWER_CALLBACK_URL", "SET_WEBHOOK_URL",
     "UKRAINE_TZ", "init_db", "bot_stats", "update_user_stats", "ScheduleBot",
     "schedule_bot", "app", "webhook", "status", "api_status", "api_schedule"}

\* api_status: the response to GET /api/status.  The view has no try: an
\* exception it raises is answered by Flask with status 500.  Of the
\* document, the counters and the two entries.
api_status(c, stats) ==
    IF "schedule_manager" \notin ModuleGlobals
    THEN [status |-> 500, raised |-> "NameError", document |-> None]
    ELSE [status |-> 200, raised |-> "none",
          document |-> Some([messages_processed |-> stats.messages_processed,
                             active_chats |-> Cardinality(stats.active_chats),
                             current_pair |-> get_current_pair(get_current_day(c.weekday),
                                                               c.time),
                             next_pair |-> get_next_pair(get_current_day(c.weekday),
                                                         c.time)])]

(***************************************************************************)
(* Requests.                                                               *)
(***************************************************************************)
InitStats == [messages_processed |-> 0, active_chats |-> {}]

NoResult == WebhookResult("", 0, "none", "none", "none", InitStats, {}, 0, FALSE, <<>>)

\* No request has been served.  A served request keeps what it was given
\* (update, clock, fault, stats_fault), the counters and the table it found
\* (before), what webhook made of it (result) and how its calls ended (sent).
NoRequest ==
    [update |-> Update("none", None, None, None, None),
     clock |-> [weekday |-> 0, time |-> Time(0, 0, 0)],
     fault |-> "none", stats_fault |-> FALSE,
     before |-> [bot_stats |-> InitStats, users |-> {}, now |-> 0],
     result |-> NoResult,
     sent |-> <<>>]

NoApiResponse == [status |-> 0, raised |-> "none", document |-> None]

AppAtRest ==
    /\ render = NoRender
    /\ bot_stats = InitStats
    /\ served = NoRequest
    /\ responses = <<>>
    /\ api = NoApiResponse

\* Telegram POSTs an update to /webhook: webhook runs up to its return
\* statement.
Webhook ==
    /\ served = NoRequest
    /\ api = NoApiResponse
    /\ Len(responses) < MaxRequests
    /\ \E u \in Updates, c \in RequestClocks, fault \in UpsertFaults, stats_fault \in BOOLEAN :
          \E r \in {webhook(u, c, bot_stats, users, now, fault, stats_fault)} :
              \E ends \in Endings(r.calls) :
                 /\ served' = [update |-> u, clock |-> c, fault |-> fault,
                               stats_fault |-> stats_fault,
                               before |-> [bot_stats |-> bot_stats, users |-> users,
                                           now |-> now],
                               result |-> r,
                               sent |-> [i \in 1..Len(r.calls) |->
                                           [call |-> r.calls[i], ret |-> ends[i].ret,
                                            attempts |-> ends[i].attempts]]]
                 /\ bot_stats' = r.bot_stats
                 /\ users' = r.users
                 /\ now' = now + r.upserts
    /\ UNCHANGED <<lookupVars, gatewayVars, txn, worker, begun, history, render,
                   responses, api>>

\* The answer goes back to Telegram and the request is over.
Return ==
    /\ served # NoRequest
    /\ responses' = Append(responses, <<served.result.body, served.result.status>>)
    /\ served' = NoRequest
    /\ UNCHANGED <<lookupVars, gatewayVars, dbVars, render, bot_stats, api>>

\* A client GETs /api/status: api_status runs.
ApiStatus ==
    /\ served = NoRequest
    /\ api = NoApiResponse
    /\ \E c \in RequestClocks : api' = api_status(c, bot_stats)
    /\ UNCHANGED <<lookupVars, gatewayVars, dbVars, render, bot_stats, served, responses>>

\* The response goes back to the client.
ApiReturn ==
    /\ api # NoApiResponse
    /\ api' = NoApiResponse
    /\ UNCHANGED <<lookupVars, gatewayVars, dbVars, render, bot_stats, served, responses>>

InitSpecLookup == InitLookup /\ InitGateway /\ InitDb /\ AppAtRest

NextLookup == GetCurrentPair \/ GetNextPair \/ GetTodaySchedule

SpecLookup == InitSpecLookup /\ [][NextLookup]_vars

InitSpecGateway == LookupAtRest /\ InitGateway /\ InitDb /\ AppAtRest

NextGateway == CallGateway \/ AdapterResend \/ AttemptEnds

SpecGateway == InitSpecGateway /\ [][NextGateway]_vars

InitSpecDb == LookupAtRest /\ InitGateway /\ InitDb /\ AppAtRest

NextDb ==
    \E w \in Workers :
        \/ BeginUpsert(w)
        \/ SelectUser(w)
        \/ WriteUser(w)
        \/ WriteLocked(w)
        \/ CommitUser(w)
        \/ StorageFault(w)

SpecDb == InitSpecDb /\ [][NextDb]_vars

InitSpecRender == InitLookup /\ InitGateway /\ InitDb /\ AppAtRest

NextRender ==
    RenderFormatDay \/ RenderSchedule \/ RenderScheduleDay \/ RenderToday \/ RenderStatusPage

SpecRender == InitSpecRender /\ [][NextRender]_vars

InitSpecWebhook == LookupAtRest /\ InitGateway /\ InitDb /\ AppAtRest

NextWebhook == Webhook \/ Return \/ ApiStatus \/ ApiReturn

SpecWebhook == InitSpecWebhook /\ [][NextWebhook]_vars

(***************************************************************************)
(* Properties of the lookups (SpecLookup).                                 *)
(***************************************************************************)
Today == get_current_day(clock.weekday)

SecondOfDay(t) == 3600 * t.hour + 60 * t.minute + t.second

StartSecond(pair) == SecondOfDay(parse_time(pair.time)[1])

EndSecond(pair) == SecondOfDay(parse_time(pair.time)[2])

\* The entries of a day whose range, both ends included, contains t.
Containing(day, t) ==
    {i \in 1..Len(SCHEDULE[day]) :
        /\ StartSecond(SCHEDULE[day][i]) <= SecondOfDay(t)
        /\ SecondOfDay(t) <= EndSecond(SCHEDULE[day][i])}

\* The entries of a day that start strictly after t.
StartingAfter(day, t) ==
    {i \in 1..Len(SCHEDULE[day]) : StartSecond(SCHEDULE[day][i]) > SecondOfDay(t)}

\* C1: on a weekday that has a schedule, at every time of day t, at most one
\* entry's range [start, end] contains t; get_current_pair returns that entry
\* when there is one, and None when t is in a gap, before the first entry or
\* after the last.
C1_CurrentPairIsTheEntryContainingNow ==
    (lookup.op = "get_current_pair" /\ Today \in DOMAIN SCHEDULE) =>
        LET c == Containing(Today, clock.time)
        IN  /\ Cardinality(c) <= 1
            /\ c = {} <=> lookup.result = None
            /\ \A i \in c : lookup.result = Some(SCHEDULE[Today][i])

\* Monday 9:50:00, the last instant of the first entry: it is the current pair.
C1_Witness ==
    /\ lookup.op = "get_current_pair"
    /\ Today = "monday"
    /\ clock.time = Time(9, 50, 0)
    /\ lookup.result = Some(SCHEDULE.monday[1])

\* C2: on a weekday that has a schedule, at every time of day t, get_next_pair
\* returns the first entry that starts strictly after t: the first entry of
\* the day when t is before its start (Monday 07:00 gives 8:30-9:50), never an
\* entry that starts at t, and None when t is after the last entry's end.
C2_NextPairIsTheFirstStartingLater ==
    (lookup.op = "get_next_pair" /\ Today \in DOMAIN SCHEDULE) =>
        LET pairs == SCHEDULE[Today]
            t     == SecondOfDay(clock.time)
            later == StartingAfter(Today, clock.time)
        IN  /\ later = {} <=> lookup.result = None
            /\ \A i \in later :
                   (\A j \in later : i <= j) => lookup.result = Some(pairs[i])
            /\ t < StartSecond(pairs[1]) => lookup.result = Some(pairs[1])
            /\ t > EndSecond(pairs[Len(pairs)]) => lookup.result = None
            /\ lookup.result # None => StartSecond(lookup.result[1]) # t
            /\ (Today = "monday" /\ clock.time = Time(7, 0, 0)) =>
                   /\ lookup.result # None
                   /\ lookup.result[1].time = T0830_0950
                   /\ lookup.result[1].pair_number = 1

\* Monday 10:00:00, the start of the second entry: the next pair is the third.
C2_Witness ==
    /\ lookup.op = "get_next_pair"
    /\ Today = "monday"
    /\ clock.time = Time(10, 0, 0)
    /\ lookup.result = Some(SCHEDULE.monday[3])

(***************************************************************************)
(* Properties of a gateway call (SpecGateway).                             *)
(***************************************************************************)
\* Attempt i of the call was followed by another attempt.
Followed(i) == i < Len(attempts) \/ (i = Len(attempts) /\ call.pc = "post")

TimedOut(r) == r \in {"connect_timeout", "read_timeout"}

\* C3: a send_message call whose attempts all time out goes on until it has
\* made exactly 3 attempts, then logs the failure and returns None; no
\* exception leaves it.
C3_ThreeTimeoutsEndInLoggedFailure ==
    (call.op = "send_message" /\ \A i \in 1..Len(attempts) : TimedOut(attempts[i])) =>
        IF Len(attempts) < 3
        THEN call.pc = "post" /\ ret = "pending"
        ELSE /\ Len(attempts) = 3
             /\ call.pc = "done"
             /\ ret = "None"
             /\ Len(log) = 4
             /\ \A k \in 1..3 : log[k] \in {"warning_timeout", "warning_connection"}
             /\ log[4] = "error_failed"

C3_Witness ==
    /\ call.op = "send_message"
    /\ attempts = <<"connect_timeout", "connect_timeout", "connect_timeout">>
    /\ log = <<"warning_timeout", "warning_timeout", "warning_timeout", "error_failed">>
    /\ ret = "None"

C5_ClientErrorEndsEditAndAnswer ==
    (call.op \in {"edit_message", "answer_callback_query"}) =>
        \A i \in 1..Len(attempts) :
            attempts[i] = "client_error" =>
                /\ ~Followed(i)
                /\ call.pc = "done"
                /\ ret = "None"

\* The sleeps a call would have made had it slept 2^k seconds after failed
\* attempt k (from 0) whenever another attempt followed.
BackoffBetweenAttempts ==
    [k \in 1..(IF call.pc = "post" THEN Len(attempts)
               ELSE IF Len(attempts) = 0 THEN 0 ELSE Len(attempts) - 1) |-> 2 ^ (k - 1)]

\* C6 as claimed: a call sends at most 3 requests, and waits 1 second after its
\* first failed attempt and 2 seconds after its second, not after its last.
C6_Original ==
    /\ requests <= 3
    /\ call.pc \in {"post", "done"} => sleeps = BackoffBetweenAttempts

\* The attempts after which the operation sleeps: those that raise into a
\* clause with a sleep, and are not the last the loop allows.
SleepsAfter(op, i) ==
    /\ i < max_attempts
    /\ attempts[i] \notin {"ok", "not_ok"}
    /\ ~(attempts[i] = "client_error" /\ op # "answer_callback_query")

RECURSIVE ExpectedSleeps(_, _)
ExpectedSleeps(op, n) ==
    IF n = 0 THEN <<>>
    ELSE ExpectedSleeps(op, n - 1) \o (IF SleepsAfter(op, n) THEN <<2 ^ (n - 1)>> ELSE <<>>)

\* C6 as amended: a call makes at most 3 attempts, each of at most
\* 1 + RetryTotal requests, so at most 18 requests; it sleeps 2^k seconds after
\* attempt k (0 or 1) when that attempt raised an exception its loop goes on
\* after, and does not sleep after an ok=false response, after the HTTP error
\* that ends a send or an edit, or after the third attempt.
C6_AttemptsRequestsAndBackoff ==
    /\ Len(attempts) <= max_attempts
    /\ requests <= (1 + RetryTotal) * max_attempts
    /\ requests <= (1 + RetryTotal) * (Len(attempts) + (IF call.pc = "post" THEN 1 ELSE 0))
    /\ sleeps = ExpectedSleeps(call.op, Len(attempts))

\* Eighteen requests, and both sleeps.
C6_Witness ==
    /\ call.pc = "done"
    /\ requests = 18
    /\ sleeps = <<1, 2>>
    /\ ret = "None"

\* C7 as claimed: an attempt is followed by another only when it ended in a
\* timeout or a connection failure.
C7_Original ==
    \A i \in 1..Len(attempts) :
        Followed(i) => attempts[i] \in {"connect_timeout", "read_timeout", "conn_error"}

\* C7 as amended: the only outcomes of an attempt that end a call before its
\* third attempt are success and, in send_message and edit_message, an HTTP
\* error status that raise_for_status raises; after every other outcome
\* (timeout, connection failure, ok=false, unreadable body, statuses the
\* adapter gave up on) another attempt follows while attempts remain.
C7_WhatEndsACallEarly ==
    \A i \in 1..Len(attempts) :
        Followed(i) <=>
            /\ i < max_attempts
            /\ attempts[i] # "ok"
            /\ ~(attempts[i] = "client_error" /\ call.op \in {"send_message", "edit_message"})

\* ok=false, then an unreadable body, then success.
C7_Witness ==
    /\ call.op = "send_message"
    /\ attempts = <<"not_ok", "bad_body", "ok">>
    /\ sleeps = <<2>>
    /\ ret = "result"

(***************************************************************************)
(* Properties of the users table (SpecDb).                                 *)
(***************************************************************************)
RowsOf(rows, c) == {r \in rows : r.chat_id = c}

\* A call of update_user_stats for chat c is in progress.
InFlight(c) == \E w \in Workers : worker[w].pc # "idle" /\ worker[w].chat_id = c

NoError(c) ==
    history[c].integrity = 0 /\ history[c].operational = 0 /\ history[c].escaped = 0

\* C8: after n upserts of one chat id made one after the other, none of them
\* hit by a storage error, the table holds no record of the chat when n = 0
\* and otherwise exactly one, with message_count = n, first_interaction the
\* time of the first upsert and last_interaction the time of the latest.
C8_SequentialUpsertsCount ==
    \A c \in ChatIds :
        (~history[c].overlapped /\ NoError(c) /\ ~InFlight(c)) =>
            LET n == history[c].calls
            IN  IF n = 0
                THEN RowsOf(users, c) = {}
                ELSE /\ Cardinality(RowsOf(users, c)) = 1
                     /\ \A r \in RowsOf(users, c) :
                            /\ r.message_count = n
                            /\ r.first_interaction = history[c].first
                            /\ r.last_interaction = history[c].last
                            /\ n > 1 => r.first_interaction < r.last_interaction

\* Three upserts of chat 7 in sequence.
C8_Witness ==
    /\ ~history[7].overlapped /\ NoError(7) /\ ~InFlight(7)
    /\ history[7].calls = 3
    /\ \E r \in users :
           r.chat_id = 7 /\ r.message_count = 3 /\ r.first_interaction < r.last_interaction

AtMostOneRecord ==
    \A c \in ChatIds :
        Cardinality(RowsOf(users, c)) <= 1 /\ Cardinality(RowsOf(txn.rows, c)) <= 1

RecordsKept == \A c \in ChatIds : RowsOf(users, c) # {} => RowsOf(users', c) # {}

\* C9: whatever the interleaving of upserts, the users table (committed, or as
\* an open transaction has written it) holds at most one record per chat id,
\* and a chat id that has a record keeps having one.
C9_OneRecordPerChatNeverDeleted == []AtMostOneRecord /\ [][RecordsKept]_vars

\* Two first messages of chat 7 at once: both calls found no row, one INSERT
\* was committed, the other was refused.
C9_Witness ==
    /\ history[7].integrity = 1
    /\ history[7].committed = 1
    /\ Cardinality(RowsOf(users, 7)) = 1

\* C10: no call of update_user_stats raises to its caller; a call that ends in
\* its except clause adds nothing to message_count, and the INSERT is refused
\* only when calls for the chat overlapped: so once the calls for a chat are
\* over, message_count is the number of calls less those whose error was
\* swallowed.
C10_SwallowedErrorsAreLostIncrements ==
    \A c \in ChatIds :
        /\ history[c].escaped = 0
        /\ history[c].integrity > 0 => history[c].overlapped
        /\ ~InFlight(c) =>
               /\ history[c].calls = history[c].committed + history[c].integrity
                                     + history[c].operational
               /\ IF history[c].committed = 0
                  THEN RowsOf(users, c) = {}
                  ELSE \A r \in RowsOf(users, c) : r.message_count = history[c].committed

\* Two calls for the new chat 7 interleave, no storage error and no lock
\* timeout: both have returned and message_count is 1.
C10_Witness ==
    /\ ~InFlight(7)
    /\ history[7].calls = 2
    /\ history[7].operational = 0
    /\ history[7].integrity = 1
    /\ history[7].escaped = 0
    /\ \E r \in users : r.chat_id = 7 /\ r.message_count = 1

\* C19: one call of send_message delivers its message to the chat at most
\* once, whatever requests time out or lose their response, a request the
\* Telegram API carried out and whose response timed out included.
C19_SendDeliversAtMostOnce ==
    call.op = "send_message" => delivered <= 1

(***************************************************************************)
(* Properties of the lookups on days without lessons (SpecLookup).         *)
(***************************************************************************)
Weekend == {"saturday", "sunday"}

\* C16: on Saturday and on Sunday, at every time of day, get_today_schedule
\* returns the empty list and get_current_pair and get_next_pair return
\* None.
C16_WeekendLookupsFindNothing ==
    (Today \in Weekend /\ lookup.op # "none") =>
        /\ lookup.op = "get_today_schedule" => lookup.result = <<>>
        /\ lookup.op \in {"get_current_pair", "get_next_pair"} => lookup.result = None

C16_Witness ==
    /\ Today = "saturday"
    /\ clock.time = Time(9, 0, 0)
    /\ lookup.op = "get_next_pair"
    /\ lookup.result = None

(***************************************************************************)
(* Properties of the reply texts (SpecRender).                             *)
(***************************************************************************)
EntriesOf(day) == IF day \in DOMAIN SCHEDULE THEN SCHEDULE[day] ELSE <<>>

\* The lines of the rendered text that show a schedule entry.
EntryLines == SelectSeq(render.text, LAMBDA l : l.kind = "entry")

DayOffMarks == {"Vyhodnoj den", "Vyhodnoj den!", "vyhodnoj den!"}

HasDayOffMark == \E i \in 1..Len(render.text) : render.text[i].mark \in DayOffMarks

\* C15: when the day a formatter renders has no entries (Saturday, Sunday),
\* whichever formatter it is (format_schedule_day, the single-day view,
\* /today, /schedule), the text has a day-off wording and shows no entry.
C15_DayWithoutEntriesRendersAsDayOff ==
    (/\ render.op # "none"
     /\ render.day \in DOMAIN WEEKDAYS_UA
     /\ EntriesOf(render.day) = <<>>) =>
        /\ render.raised = "none"
        /\ HasDayOffMark
        /\ EntryLines = <<>>

C15_Witness ==
    /\ render.op = "handle_today"
    /\ render.day = "sunday"
    /\ HasDayOffMark
    /\ EntryLines = <<>>

\* An entry of the week table is shown by the rendered text.
Shown(pair) ==
    \E i \in 1..Len(EntryLines) :
        /\ EntryLines[i].time = pair.time
        /\ EntryLines[i].subject = pair.subject

\* C18: the reply to /schedule is the schedule of the whole week: it shows
\* every entry of each of the five weekdays, on every day of the week.
C18_ScheduleRepliesWithTheWholeWeek ==
    render.op = "handle_schedule" =>
        \A d \in DOMAIN SCHEDULE :
            \A i \in 1..Len(SCHEDULE[d]) : Shown(SCHEDULE[d][i])

\* The three statuses, whichever wording the view uses for them.
StatusOfMark(mark) ==
    CASE mark \in {TodayMarks[1], DayMarks[1]} -> "ACTIVE"
      [] mark \in {TodayMarks[2], DayMarks[2]} -> "UPCOMING"
      [] mark \in {TodayMarks[3], DayMarks[3]} -> "PAST"
      [] OTHER -> "NONE"

ShownStatus(i) == StatusOfMark(EntryLines[i].mark)

\* The rendered text is a view of the current day with statuses.
ViewOfToday ==
    /\ EntriesOf(Today) # <<>>
    /\ \/ render.op = "handle_today"
       \/ render.op = "handle_schedule_day" /\ render.day = Today

\* C20: in the /today reply and in the single-day view of the current day,
\* the entries of the day are shown in order, each one ACTIVE exactly when
\* it is the entry get_current_pair returns, UPCOMING exactly when it is not
\* active and starts after the current time, PAST otherwise; at most one is
\* ACTIVE and no PAST entry comes after an ACTIVE or UPCOMING one.
C20_StatusesFollowTheClock ==
    ViewOfToday =>
        /\ Len(EntryLines) = Len(SCHEDULE[Today])
        /\ \A i \in 1..Len(EntryLines) :
              LET pair   == SCHEDULE[Today][i]
                  active == get_current_pair(Today, clock.time) = Some(pair)
                  later  == StartSecond(pair) > SecondOfDay(clock.time)
              IN  /\ EntryLines[i].time = pair.time
                  /\ EntryLines[i].subject = pair.subject
                  /\ ShownStatus(i) = IF active THEN "ACTIVE"
                                      ELSE IF later THEN "UPCOMING" ELSE "PAST"
        /\ Cardinality({i \in 1..Len(EntryLines) : ShownStatus(i) = "ACTIVE"}) <= 1
        /\ \A i, j \in 1..Len(EntryLines) :
              (i < j /\ ShownStatus(i) \in {"ACTIVE", "UPCOMING"}) =>
                  ShownStatus(j) # "PAST"

C20_Witness ==
    /\ render.op = "handle_today"
    /\ Today = "monday"
    /\ clock.time = Time(10, 30, 0)
    /\ [i \in 1..Len(EntryLines) |-> ShownStatus(i)]
          = <<"PAST", "ACTIVE", "UPCOMING", "UPCOMING">>

(***************************************************************************)
(* Properties of the requests (SpecWebhook).                               *)
(***************************************************************************)
\* /webhook has served a request.
Served == served.update.kind # "none"

\* The update is a message that has its chat and its sender.
WholeMessage ==
    /\ served.update.kind = "message"
    /\ served.update.chat # None
    /\ served.update.sender # None

\* C11: every message delivered to the webhook causes one upsert of the
\* sender chat's row (one call of update_user_stats), whatever the message
\* carries: a command, plain text, or no text at all.
C11_EveryMessageIsUpserted ==
    (Served /\ WholeMessage) => served.result.upserts = 1

\* The storage write of the served request failed.
WriteFailed == Served /\ served.result.upserts = 1 /\ served.fault # "none"

\* What webhook would have made of the served request had the write
\* succeeded.
HadTheWriteSucceeded ==
    webhook(served.update, served.clock, served.before.bot_stats, served.before.users,
            served.before.now, "none", served.stats_fault)

Answer == <<served.result.body, served.result.status>>

\* C12 as stated: when the write in update_user_stats fails, the error is
\* logged and swallowed, the calls handle_message makes are the ones it
\* would have made had the write succeeded, same texts, and the webhook
\* answers OK/200.
C12_Original ==
    WriteFailed =>
        /\ served.result.logged
        /\ served.result.calls = HadTheWriteSucceeded.calls
        /\ Answer = <<"OK", 200>>

\* The text is the report of handle_stats.
IsStatsReport(text) == text # <<>> /\ text[1].kind = "stats_users"

\* C12: when the write in update_user_stats fails, the error is logged and
\* swallowed, the table is left as it was, the webhook answers OK/200 and
\* handle_message makes the calls it would have made had the write
\* succeeded, with the same texts, but for the report of /stats, whose
\* numbers are those of the table without the failed write.
C12_FailedWriteIsSwallowed ==
    WriteFailed =>
        /\ served.result.logged
        /\ served.result.exception = "none" \/ served.result.exception = "AttributeError"
        /\ served.result.users = served.before.users
        /\ Answer = <<"OK", 200>>
        /\ Len(served.result.calls) = Len(HadTheWriteSucceeded.calls)
        /\ \A i \in 1..Len(served.result.calls) :
              LET made  == served.result.calls[i]
                  other == HadTheWriteSucceeded.calls[i]
              IN  /\ made.op = other.op
                  /\ made.chat_id = other.chat_id
                  /\ made.keyboard = other.keyboard
                  /\ IF IsStatsReport(other.text)
                     THEN made.text = StatsText(served.result.bot_stats,
                                                served.before.users, FALSE)
                     ELSE made.text = other.text

C12_Witness ==
    /\ WriteFailed
    /\ served.update.text = Some(StrText(Cmd_today))
    /\ Answer = <<"OK", 200>>
    /\ Len(served.sent) = 1
    /\ served.sent[1].call.text = TodayText(served.clock)

TwoAnswers == {<<"OK", 200>>, <<"Error", 500>>}

\* The update lacks a field webhook or handle_callback_query subscripts.
Malformed ==
    \/ served.update.kind = "message"
          /\ (served.update.chat = None \/ served.update.sender = None)
    \/ served.update.kind = "callback_query" /\ served.update.chat = None

\* C13: every request to the webhook is answered with "OK"/200 or with
\* "Error"/500; a malformed update (a message without its chat or its
\* sender, a callback query without its message) is answered with
\* "Error"/500, and after such an answer the next request is served.
C13_TwoAnswersAndMalformedIsAnError ==
    /\ \A i \in 1..Len(responses) : responses[i] \in TwoAnswers
    /\ Served => Answer \in TwoAnswers
    /\ (Served /\ Malformed) => Answer = <<"Error", 500>>
    /\ (/\ responses # <<>>
        /\ responses[Len(responses)] = <<"Error", 500>>
        /\ served = NoRequest
        /\ api = NoApiResponse
        /\ Len(responses) < MaxRequests) => ENABLED Webhook

C13_Witness ==
    /\ responses = << <<"Error", 500>> >>
    /\ Served
    /\ served.update.text = Some(StrText(Cmd_start))
    /\ Answer = <<"OK", 200>>
    /\ Len(served.sent) = 1

\* The sends of the apology the served request made.
Apologies ==
    {i \in 1..Len(served.sent) :
        /\ served.sent[i].call.op = "send_message"
        /\ served.sent[i].call.text = <<Literal("apology", "", "")>>}

\* C14: an exception raised while a command is handled, in handle_message
\* or in handle_callback_query, is caught inside that handler and one send
\* of the apology is attempted; nothing is raised further, however that send
\* ends.
C14_HandlerExceptionsEndInOneApology ==
    (Served /\ served.result.exception # "none") =>
        /\ served.result.raised = "none"
        /\ Cardinality(Apologies) = 1

\* C17: a request to /api/status is answered with status 200 and a document
\* that has the counters and the current and the next entry, in every state
\* of the process.
C17_ApiStatusSucceeds ==
    api # NoApiResponse => (api.status = 200 /\ api.document # None)

(***************************************************************************)
(* The status page against /today (SpecRender).                            *)
(***************************************************************************)
\* The entries of the /today reply at the clock reading of the page.
TodayEntries == SelectSeq(TodayText(clock), LAMBDA l : l.kind = "entry")

\* C21: on every weekday at every time of day, the status page shows the
\* entries of today that /today shows, each with the status (ACTIVE,
\* UPCOMING, PAST) that /today gives it.
C21_StatusPageMarksAsToday ==
    render.op = "status" =>
        /\ Len(EntryLines) = Len(TodayEntries)
        /\ \A i \in 1..Len(EntryLines) :
              /\ EntryLines[i].time = TodayEntries[i].time
              /\ ShownStatus(i) = StatusOfMark(TodayEntries[i].mark)

(***************************************************************************)
(* The gateway calls of one request (SpecWebhook).                         *)
(***************************************************************************)
RECURSIVE SumAttempts(_)
SumAttempts(sent) ==
    IF sent = <<>> THEN 0 ELSE sent[1].attempts + SumAttempts(Tail(sent))

\* The calls of an operation the served request made, in the order made.
SentOf(op) == SelectSeq(served.sent, LAMBDA x : x.call.op = op)

\* C22: when webhook comes to its return statement, every gateway call of
\* the request has ended (it returned a result or None) after one to three
\* attempts; the attempts are at most 6 in all, at most 3 for a message,
\* and at most 3 of edit_message and 3 of answer_callback_query for a
\* callback query; and the answer can then be returned.
C22_AnswerAfterAtMostSixAttempts ==
    Served =>
        /\ \A i \in 1..Len(served.sent) :
              /\ served.sent[i].ret \in {"result", "None"}
              /\ served.sent[i].attempts \in 1..max_attempts
        /\ Len(served.sent) = Len(served.result.calls)
        /\ SumAttempts(served.sent) <= 6
        /\ served.update.kind = "message" => SumAttempts(served.sent) <= 3
        /\ served.update.kind = "callback_query" =>
              /\ SumAttempts(SentOf("edit_message")) <= 3
              /\ SumAttempts(SentOf("answer_callback_query")) <= 3
              /\ SentOf("send_message") = <<>>
        /\ ENABLED Return

\* A callback query whose edit and whose answer both failed three times.
C22_Witness ==
    /\ served.update.kind = "callback_query"
    /\ SumAttempts(served.sent) = 6
    /\ \A i \in 1..Len(served.sent) : served.sent[i].ret = "None"

\* The data of the buttons: schedule_<d>, d a weekday name or full.
ScheduleData == {Prefix_schedule \o Spelling[d] : d \in DOMAIN Spelling}

\* The served update is a callback query that carries its data and the
\* message its button is on.
CallbackServed ==
    /\ served.update.kind = "callback_query"
    /\ served.update.chat # None
    /\ served.update.data # None

\* C23: a callback query (with its message) whose data is schedule_<d>, d
\* a weekday name or full, makes two gateway calls, in this order: the
\* edit of the message, which ends (with a result or, after its attempts,
\* with None) before the next call starts, then the answer to the
\* callback, without a text, however the edit ended.  One whose data does
\* not start with schedule_ makes one call: the answer to the callback,
\* with the unknown-command text.
C23_EditThenAnswer ==
    CallbackServed =>
        /\ served.update.data[1] \in ScheduleData =>
              /\ Len(served.sent) = 2
              /\ served.sent[1].call.op = "edit_message"
              /\ served.sent[1].ret \in {"result", "None"}
              /\ served.sent[1].attempts \in 1..max_attempts
              /\ served.sent[2].call.op = "answer_callback_query"
              /\ served.sent[2].call.text = <<>>
        /\ ~StartsWith(served.update.data[1], Prefix_schedule) =>
              /\ Len(served.sent) = 1
              /\ served.sent[1].call.op = "answer_callback_query"
              /\ served.sent[1].call.text = <<Literal("unknown_command", "", "")>>

\* The edit of the Sunday view failed three times and the callback was
\* answered all the same.
C23_Witness ==
    /\ CallbackServed
    /\ served.update.data[1] = Prefix_schedule \o Spelling.sunday
    /\ Len(served.sent) = 2
    /\ served.sent[1].call.op = "edit_message"
    /\ served.sent[1].ret = "None"
    /\ served.sent[1].attempts = 3
    /\ served.sent[2].call.op = "answer_callback_query"
    /\ served.sent[2].ret = "result"

(***************************************************************************)
(* The effects of one request (SpecWebhook).                               *)
(***************************************************************************)
\* C24: when webhook answers "Error"/500, the request made no gateway call,
\* bot_stats is what it was before the request, and the users table is
\* what it was: update_user_stats was not called.
C24_ErrorAnswerMeansNoEffect ==
    (Served /\ Answer = <<"Error", 500>>) =>
        /\ served.sent = <<>>
        /\ served.result.calls = <<>>
        /\ bot_stats = served.before.bot_stats
        /\ users = served.before.users
        /\ served.result.upserts = 0
        /\ now = served.before.now

\* The second request, a button press with data schedule_x, is answered
\* with "Error"/500 after a first one that was counted.
C24_Witness ==
    /\ Served
    /\ Answer = <<"Error", 500>>
    /\ served.update.kind = "callback_query"
    /\ served.update.data = Some(Prefix_schedule \o <<"x">>)
    /\ served.result.exception = "KeyError"
    /\ bot_stats.messages_processed = 1
    /\ users # {}

\* The served update is a message with a chat, a sender and a text that is
\* a string.
TextMessage ==
    /\ WholeMessage
    /\ served.update.text # None
    /\ served.update.text[1].is_str

\* The texts of handle_stats: the report, or its error line.
IsStatistics(text) ==
    text # <<>> /\ text[1].kind \in {"stats_users", "stats_error"}

\* C25: a gateway call carries the statistics only when the request is a
\* message whose text starts with /stats from the chat -1002055203579, and
\* then it goes to that chat; a message whose text starts with /stats from
\* any other chat gets one send_message, with the unknown-command text.
C25_StatsOnlyForTheAdminChat ==
    Served =>
        /\ \A i \in 1..Len(served.sent) :
              IsStatistics(served.sent[i].call.text) =>
                  /\ TextMessage
                  /\ StartsWith(served.update.text[1].chars, Cmd_stats)
                  /\ str(served.update.chat[1]) = "-1002055203579"
                  /\ served.sent[i].call.chat_id = served.update.chat[1]
        /\ (/\ TextMessage
            /\ StartsWith(served.update.text[1].chars, Cmd_stats)
            /\ str(served.update.chat[1]) # "-1002055203579") =>
              /\ Len(served.sent) = 1
              /\ served.sent[1].call.op = "send_message"
              /\ served.sent[1].call.chat_id = served.update.chat[1]
              /\ served.sent[1].call.text = <<Literal("unknown_command", "", "")>>

\* /stats from another chat, with rows in the table to report on.
C25_Witness ==
    /\ TextMessage
    /\ served.update.text[1].chars = Cmd_stats
    /\ served.update.chat = Some(7)
    /\ served.before.users # {}
    /\ Len(served.sent) = 1
    /\ served.sent[1].call.text = <<Literal("unknown_command", "", "")>>

\* The served update is a text message whose text does not start with '/'.
PlainTextServed ==
    /\ TextMessage
    /\ ~StartsWith(served.update.text[1].chars, Slash)

\* message_count of the chat's row, 0 when the table has none.
CountOf(rows, chat) ==
    IF RowFound(rows, chat)
    THEN (CHOOSE r \in rows : r.chat_id = chat).message_count
    ELSE 0

\* C26: a text message whose text does not start with '/' makes no gateway
\* call and is answered "OK"/200, while messages_processed grows by 1, the
\* chat is in active_chats, and update_user_stats is called once for the
\* chat: unless its write fails, the chat's row then has a message_count
\* one greater than before (1 for a new chat) and the time of this message
\* as last_interaction.  In every state the number of active chats is at
\* most messages_processed.
C26_PlainTextIsCountedNotAnswered ==
    /\ PlainTextServed =>
          /\ served.sent = <<>>
          /\ served.result.calls = <<>>
          /\ Answer = <<"OK", 200>>
          /\ bot_stats.messages_processed = served.before.bot_stats.messages_processed + 1
          /\ served.update.chat[1] \in bot_stats.active_chats
          /\ served.result.upserts = 1
          /\ served.fault = "none" =>
                \E r \in users :
                    /\ r.chat_id = served.update.chat[1]
                    /\ r.message_count = CountOf(served.before.users, r.chat_id) + 1
                    /\ r.last_interaction = served.before.now
                    /\ RowsOf(users, r.chat_id) = {r}
    /\ Cardinality(bot_stats.active_chats) <= bot_stats.messages_processed

\* The second plain text of a chat: counted twice, one active chat.
C26_Witness ==
    /\ PlainTextServed
    /\ served.sent = <<>>
    /\ bot_stats.messages_processed = 2
    /\ bot_stats.active_chats = {served.update.chat[1]}
    /\ CountOf(users, served.update.chat[1]) = 2

====
